---- MODULE Spec2Model ----
(***************************************************************************)
(* The URL shortener of app/main.py: one table of URLShortener rows in a   *)
(* SQLite file shared by every worker process that serves the app.  Each   *)
(* handler is an `async def` with no await, so one worker runs one handler *)
(* at a time; the statements different workers send to the database        *)
(* interleave.  An action is one statement-to-commit unit of a handler.    *)
(* The workers are alike, so the state keeps the bag of the requests they  *)
(* are in the middle of, not which worker serves which.                    *)
(***************************************************************************)
EXTENDS Integers, Sequences, FiniteSets, Bags, TLC

\* ---- bounds of the model ------------------------------------------------
NumWorkers == 2
MaxRecords == 2
MaxLookups == 3
MaxDigit == 1
UuidDigits == 8

\* ---- constants of the program -------------------------------------------
CodeLen == 7
RedirectStatus == 307

\* The request bodies of POST /shorten/ that are tried: three strings and a
\* body whose original_url is missing or not a string.
Urls == {"", "https://a", "https://b"}
Bodies == {[is_str |-> TRUE, original_url |-> u] : u \in Urls}
            \cup {[is_str |-> FALSE, original_url |-> ""]}

\* ---- base62.encode and the short code ------------------------------------
CHARSET ==
    << "0", "1", "2", "3", "4", "5", "6", "7", "8", "9",
       "A", "B", "C", "D", "E", "F", "G", "H", "I", "J", "K", "L", "M",
       "N", "O", "P", "Q", "R", "S", "T", "U", "V", "W", "X", "Y", "Z",
       "a", "b", "c", "d", "e", "f", "g", "h", "i", "j", "k", "l", "m",
       "n", "o", "p", "q", "r", "s", "t", "u", "v", "w", "x", "y", "z" >>

Zeros(n) == [i \in 1..n |-> 0]

\* The values tried for the first digit the short code drops.
DroppedDigits == {0, 1}

\* uuid4().int, written as its base-62 digits, most significant first.  The
\* values differ in the last digit the short code keeps and in the first
\* digit it drops.
Uuid4Ints ==
    { <<1>> \o Zeros(CodeLen - 2) \o <<a, b>> \o Zeros(UuidDigits - CodeLen - 1) :
        a \in 0..MaxDigit, b \in DroppedDigits }

\* encode(n): the characters of the digits of n, most significant first.
encode(digits) == [i \in 1..Len(digits) |-> CHARSET[digits[i] + 1]]

Prefix(s, n) == SubSeq(s, 1, IF Len(s) < n THEN Len(s) ELSE n)

RECURSIVE Join(_)
Join(chars) == IF chars = <<>> THEN "" ELSE Head(chars) \o Join(Tail(chars))

\* encode(uuid_code)[:7]
ShortCodeOf(uuid_code) == Join(Prefix(encode(uuid_code), CodeLen))

\* The code of every uuid tried, computed once.
CodeTable == [u \in Uuid4Ints |-> ShortCodeOf(u)]

ShortCodes == {CodeTable[u] : u \in Uuid4Ints}

\* The path parameters tried by GET /{short_code} and GET /stats/{short_code}.
ShortCodeInputs == ShortCodes \cup {"nocode"}

\* ---- state ----------------------------------------------------------------
VARIABLES
    table,      \* the rows of URLShortener, in storage order
    inflight,   \* the bag of lookup_url calls between their read and their write
    resp,       \* the response sent by the step just taken (NoResponse if none)
    created,    \* history: the <<short code, url>> pairs POST /shorten/ returned
    completed,  \* history: per short code, the lookup_url calls that returned a url
    started     \* history: the lookup_url calls that found a row

vars == <<table, inflight, resp, created, completed, started>>

NoObj == [id |-> 0, original_url |-> "", shorten_url |-> "", click_count |-> 0]

\* What lookup_url returns: the integer 0 or a string.
IntRet(n) == [kind |-> "int", n |-> n, s |-> ""]
StrRet(s) == [kind |-> "str", n |-> 0, s |-> s]
NoRet == [kind |-> "none", n |-> 0, s |-> ""]

\* Python truth value of what lookup_url returned.
Truthy(r) == IF r.kind = "int" THEN r.n # 0 ELSE r.s # ""

NoResponse ==
    [op |-> "none", arg |-> "", status |-> 0, location |-> "", detail |-> "",
     original_url |-> "", shorten_url |-> "", stats |-> <<>>, ret |-> NoRet]

Init ==
    /\ table = <<>>
    /\ inflight = EmptyBag
    /\ resp = NoResponse
    /\ created = {}
    /\ completed = [c \in ShortCodes |-> 0]
    /\ started = 0

\* ---- the store --------------------------------------------------------------
Rows == 1..Len(table)

\* A select that lost its where clause: the first row, whatever its code.
SelectFirst_AnyRow(short_code) == IF Rows # {} THEN 1 ELSE 0

\* select(cls).where(cls.shorten_url == short_code) ... .first(): the index
\* of the first matching row, 0 for None.
SelectFirst(short_code) ==
    IF \E i \in Rows : table[i].shorten_url = short_code
    THEN CHOOSE i \in Rows :
            /\ table[i].shorten_url = short_code
            /\ \A j \in Rows : table[j].shorten_url = short_code => i <= j
    ELSE 0

\* A shorten_url column declared without unique=True.
UniqueViolation_NoIndex(short_code) == FALSE

\* The unique index on shorten_url refuses a second row with the same code.
UniqueViolation(short_code) == \E i \in Rows : table[i].shorten_url = short_code

\* The integer primary key the store assigns to a new row.
NextId == Len(table) + 1

\* The index of the row with primary key id.
RowOfId(id) == CHOOSE i \in Rows : table[i].id = id

\* A worker is free to take a request.
Free == BagCardinality(inflight) < NumWorkers

\* ---- GET / --------------------------------------------------------------------
root ==
    /\ Free
    /\ resp' = [NoResponse EXCEPT !.op = "root", !.status = RedirectStatus,
                                  !.location = "/docs"]
    /\ UNCHANGED <<table, inflight, created, completed, started>>

\* ---- POST /shorten/ -------------------------------------------------------------
\* ShortenRequest: the body is accepted when original_url is a string.
ShortenRequest(body) == body.is_str

\* A body the schema refuses never reaches the handler.
shorten_invalid(body) ==
    /\ Free
    /\ ~ShortenRequest(body)
    /\ resp' = [NoResponse EXCEPT !.op = "shorten", !.status = 422,
                                  !.detail = "validation error"]
    /\ UNCHANGED <<table, inflight, created, completed, started>>

\* generate_short_code, from uuid4() to the return: the object gets its
\* code, session.commit() inserts it and session.refresh reads it back.  A
\* code that is taken makes the commit raise; nothing catches it.  The
\* result is the response to give and the table to leave.
generate_short_code(url, uuid_code) ==
    LET obj == [url EXCEPT !.shorten_url = CodeTable[uuid_code]] IN
    IF UniqueViolation(obj.shorten_url)
    THEN [rows |-> table,
          resp |-> [NoResponse EXCEPT !.op = "shorten", !.status = 500,
                                      !.detail = "IntegrityError",
                                      !.arg = obj.shorten_url]]
    ELSE [rows |-> Append(table, [obj EXCEPT !.id = NextId]),
          resp |-> [NoResponse EXCEPT !.op = "shorten", !.status = 200,
                                      !.arg = obj.shorten_url,
                                      !.original_url = obj.original_url,
                                      !.shorten_url = obj.shorten_url]]

\* A generate_short_code whose commit error is caught and dropped: the
\* handler answers 200 with the code although the row was not stored.
shorten_url_swallowed(body, uuid_code) ==
    /\ Free
    /\ ShortenRequest(body)
    /\ Len(table) < MaxRecords
    /\ LET done == generate_short_code([NoObj EXCEPT !.original_url = body.original_url],
                                       uuid_code)
           code == CodeTable[uuid_code]
       IN /\ table' = done.rows
          /\ resp' = [NoResponse EXCEPT !.op = "shorten", !.status = 200,
                                        !.arg = code,
                                        !.original_url = body.original_url,
                                        !.shorten_url = code]
          /\ created' = created \cup {<<code, body.original_url>>}
    /\ UNCHANGED <<inflight, completed, started>>

\* shorten_url for a body the schema accepts.  The handler touches the
\* store once, in the commit, so the whole of it is one step.
shorten_url(body, uuid_code) ==
    /\ Free
    /\ ShortenRequest(body)
    /\ Len(table) < MaxRecords
    /\ LET done == generate_short_code([NoObj EXCEPT !.original_url = body.original_url],
                                       uuid_code)
       IN /\ table' = done.rows
          /\ resp' = done.resp
          /\ created' = IF done.resp.status = 200
                        THEN created \cup {<<done.resp.shorten_url, done.resp.original_url>>}
                        ELSE created
    /\ UNCHANGED <<inflight, completed, started>>

\* ---- GET /{short_code} ------------------------------------------------------------
\* A lookup_url that returns a message instead of a false value on a miss.
LookupMiss_Message == StrRet("URL not found")

\* What lookup_url returns when no row matches.
LookupMiss == IntRet(0)

\* redirect, from the value lookup_url returned to the response.
redirect(short_code, original_url) ==
    IF Truthy(original_url)
    THEN [NoResponse EXCEPT !.op = "redirect", !.arg = short_code,
                            !.status = RedirectStatus,
                            !.location = original_url.s, !.ret = original_url]
    ELSE [NoResponse EXCEPT !.op = "redirect", !.arg = short_code,
                            !.status = 404, !.detail = "URL not found",
                            !.ret = original_url]

\* The value lookup_url writes back: the count it read, plus one.
Incremented(click_count) == click_count + 1

\* lookup_url up to the test of the result: the row is read.
lookup_select(short_code) ==
    /\ Free
    /\ LET i == SelectFirst(short_code) IN
       IF i = 0
       THEN /\ resp' = redirect(short_code, LookupMiss)
            /\ UNCHANGED <<inflight, started>>
       ELSE /\ started < MaxLookups
            /\ started' = started + 1
            /\ inflight' = inflight (+) SetToBag({[short_code |-> short_code,
                                                   obj |-> table[i]]})
            /\ resp' = NoResponse
    /\ UNCHANGED <<table, created, completed>>

\* The rest of lookup_url and of redirect: the count is written back, the
\* row is read again, its original_url is returned and answered.
lookup_update(call) ==
    /\ BagIn(call, inflight)
    /\ LET obj == call.obj
           i == RowOfId(obj.id)
       IN /\ table' = [table EXCEPT ![i].click_count = Incremented(obj.click_count)]
          /\ resp' = redirect(call.short_code, StrRet(table'[i].original_url))
          /\ completed' = [completed EXCEPT ![call.short_code] = @ + 1]
    /\ inflight' = inflight (-) SetToBag({call})
    /\ UNCHANGED <<created, started>>

\* Some lookup_url call that has read its row goes on.
lookup_commit == \E call \in BagToSet(inflight) : lookup_update(call)

\* ---- GET /stats/ and GET /stats/{short_code} -----------------------------------------
get_all_rows ==
    /\ Free
    /\ resp' = [NoResponse EXCEPT !.op = "get_all_rows", !.status = 200,
                                  !.stats = table]
    /\ UNCHANGED <<table, inflight, created, completed, started>>

get_stats(short_code) ==
    /\ Free
    /\ LET i == SelectFirst(short_code) IN
       resp' = IF i = 0
               THEN [NoResponse EXCEPT !.op = "get_stats", !.arg = short_code,
                                       !.status = 404, !.detail = "URL not found"]
               ELSE [NoResponse EXCEPT !.op = "get_stats", !.arg = short_code,
                                       !.status = 200, !.stats = <<table[i]>>]
    /\ UNCHANGED <<table, inflight, created, completed, started>>

\* ---- specification ----------------------------------------------------------------------
Next ==
    \/ root
    \/ \E body \in Bodies : shorten_invalid(body)
    \/ \E body \in Bodies, u \in Uuid4Ints : shorten_url(body, u)
    \/ \E c \in ShortCodeInputs : lookup_select(c)
    \/ lookup_commit
    \/ get_all_rows
    \/ \E c \in ShortCodeInputs : get_stats(c)

Spec == Init /\ [][Next]_vars

TypeOK ==
    /\ Len(table) <= MaxRecords
    /\ \A i \in Rows : table[i].id = i /\ table[i].shorten_url \in ShortCodes
    /\ BagCardinality(inflight) <= NumWorkers
    /\ started <= MaxLookups

\* ---- properties ---------------------------------------------------------------------------
RowsWith(short_code) == {i \in Rows : table[i].shorten_url = short_code}

\* C1: in every reachable state no two rows of the table have the same
\* shorten_url, whatever shorten requests ran and however they interleaved.
C1_UniqueShortCode ==
    \A i \in Rows, j \in Rows : i # j => table[i].shorten_url # table[j].shorten_url

\* Two shorten requests for the same URL both succeeded.
C1_Witness ==
    /\ Len(table) = 2
    /\ table[1].original_url = table[2].original_url

\* C2: when no lookup_url call is between its read and its write, the
\* click_count of every row equals the number of lookup_url calls on its code
\* that have completed: N completed calls grew it by exactly N.
C2_NoLostIncrement ==
    inflight = EmptyBag =>
        \A i \in Rows : table[i].click_count = completed[table[i].shorten_url]

\* C3: a lookup_url of a code that POST /shorten/ has returned gives back
\* exactly the original_url of that shorten request.
C3_RoundTrip ==
    resp.op = "redirect" =>
        \A p \in created : p[1] = resp.arg => resp.ret = StrRet(p[2])

\* A lookup of a created code answered while another code exists and has
\* been looked up as well.
C3_Witness ==
    /\ resp.op = "redirect"
    /\ \E p \in created : p[1] = resp.arg
    /\ \E c \in ShortCodes : c # resp.arg /\ completed[c] > 0

\* C4: a shorten request whose generated code a persisted row already has
\* fails with an error instead of a 200, and leaves the table as it was.
C4_ConflictLeavesStore ==
    [][(resp'.op = "shorten" /\ resp'.status # 422 /\ RowsWith(resp'.arg) # {})
          => /\ resp'.status = 500
             /\ table' = table]_vars

\* A shorten request was refused for a code whose row has been looked up.
C4_Witness ==
    /\ resp.op = "shorten"
    /\ resp.status = 500
    /\ \E i \in RowsWith(resp.arg) : table[i].click_count > 0

\* C5: GET /{short_code} for a code no row has answers 404, lookup_url
\* having returned its not-found value, and the table is left as it was.
C5_UnknownCodeNotFound ==
    [][(resp'.op = "redirect" /\ RowsWith(resp'.arg) = {})
          => /\ resp'.status = 404
             /\ ~Truthy(resp'.ret)
             /\ table' = table]_vars

\* An unknown code was answered 404 while the table holds a looked-up row.
C5_Witness ==
    /\ resp.op = "redirect"
    /\ resp.status = 404
    /\ RowsWith(resp.arg) = {}
    /\ \E i \in Rows : table[i].click_count > 0

\* C6: every row has a non-empty original_url, and no shorten request with
\* an empty original_url is answered 200.
C6_OriginalUrlNonEmpty ==
    /\ \A i \in Rows : table[i].original_url # ""
    /\ (resp.op = "shorten" /\ resp.status = 200) => resp.original_url # ""

\* C7: the click_count that get_stats and get_all_rows report for a row is
\* the number of completed lookups of its code; a new row starts at 0, and a
\* row's click_count changes only in a lookup of its own code.
C7_ClickCountIsLookupCount ==
    /\ [](resp.op \in {"get_stats", "get_all_rows"} =>
            \A k \in 1..Len(resp.stats) :
                resp.stats[k].click_count = completed[resp.stats[k].shorten_url])
    /\ [][/\ \A i \in 1..Len(table') : i \notin Rows => table'[i].click_count = 0
          /\ \A i \in Rows :
                (i <= Len(table') /\ table'[i].click_count # table[i].click_count)
                => (resp'.op = "redirect" /\ resp'.arg = table[i].shorten_url)]_vars

\* C8: no step removes a row or changes its id, original_url or shorten_url,
\* and no step lowers a click_count.
C8_RecordLifecycle ==
    [][/\ Len(table') >= Len(table)
       /\ \A i \in Rows :
            i <= Len(table') =>
               /\ table'[i].id = table[i].id
               /\ table'[i].original_url = table[i].original_url
               /\ table'[i].shorten_url = table[i].shorten_url
               /\ table'[i].click_count >= table[i].click_count]_vars

\* C9: GET /{short_code} answers 302 or 303 with the row's original_url as
\* location when a row has the code, and 404 with an error body when none has.
C9_RedirectAnswer ==
    resp.op = "redirect" =>
        IF RowsWith(resp.arg) # {}
        THEN /\ resp.status \in {302, 303}
             /\ \A i \in RowsWith(resp.arg) : resp.location = table[i].original_url
        ELSE /\ resp.status = 404
             /\ resp.detail # ""

\* C10: GET /{short_code} answers 404 only when no row has the code and
\* then changes nothing; a request that raises a click_count answers with a
\* redirect to that row's original_url.
C10_ResponseAgreesWithStore ==
    [][/\ (resp'.op = "redirect" /\ resp'.status = 404)
            => (table' = table /\ RowsWith(resp'.arg) = {})
       /\ \A i \in Rows :
            (i <= Len(table') /\ table'[i].click_count # table[i].click_count)
            => /\ resp'.op = "redirect"
               /\ resp'.status = RedirectStatus
               /\ resp'.location = table[i].original_url]_vars
====
